---- MODULE Spec2Model ----
(***************************************************************************)
(* British Airways review scraper (scraper/scrape_reviews.py) and the      *)
(* author pseudonymizer (scraper/pseudonymize.py).                          *)
(*                                                                         *)
(* Text is a sequence of one-character strings, so that trimming, regular  *)
(* expression search, concatenation and number formatting are computed on  *)
(* characters.  A dict is a function whose domain is its key set.          *)
(***************************************************************************)
EXTENDS Integers, Sequences, FiniteSets, TLC

VARIABLES
    response,     \* scrape_reviews: what requests.get returned for page_url
    scraped,      \* scrape_reviews: outcome of the call (raised, reviews, log)
    s_pc,         \* scrape_reviews: "idle" | "ready" | "done"
    pc,           \* crawler main: "idle" | "section" | "pages" | "done" | "raised"
    raised,       \* crawler main: the exception that ended the run, and where it rose
    sec,          \* crawler main: index into sections of the current section
    num_pages,    \* crawler main: page count discovered for the current section
    page_num,     \* get_all_reviews: next page number of the range loop
    all_reviews,  \* get_all_reviews: all_reviews accumulated so far
    requested,    \* every URL requested so far, as <<section, page_num>>
    fetched,      \* get_all_reviews: the responses to its requests so far
    harvests,     \* per section, the call of get_all_reviews that returned
    data,         \* data/<section>_reviews.csv written by the crawler, per section
    out,          \* crawler main: diagnostics printed, per section
    listing,      \* pseudonymize main: os.listdir("data"), in the order returned
    files,        \* pseudonymize: contents of the files of data/, by file name
    p_idx,        \* pseudonymize main: position in listing
    p_calls,      \* pseudonymize: per file, the last process_dataset call on it: the
                  \* contents before, the level logged, whether the file was written
    p_seen,       \* pseudonymize main: files passed to process_dataset in this run
    p_done        \* pseudonymize: files on which process_dataset has succeeded

vars == <<response, scraped, s_pc, pc, raised, sec, num_pages, page_num, all_reviews,
          requested, fetched, harvests, data, out, listing, files, p_idx, p_calls,
          p_seen, p_done>>

scrapeVars == <<response, scraped, s_pc>>
crawlVars == <<pc, raised, sec, num_pages, page_num, all_reviews, requested, fetched,
               harvests, data, out>>
pseudoVars == <<listing, files, p_idx, p_calls, p_seen, p_done>>

(***************************************************************************)
(* Bounds of the model.                                                    *)
(***************************************************************************)
MaxLen == 5          \* longest status-line text
MaxTableRows == 2    \* most rows of a review-ratings table
MaxPages == 2        \* largest page count the pagination control shows
MaxRows == 2         \* most rows of a dataset file

(***************************************************************************)
(* Text.                                                                   *)
(***************************************************************************)
RECURSIVE SeqsUpTo(_, _)
SeqsUpTo(S, n) ==
    IF n = 0 THEN {<< >>}
    ELSE LET shorter == SeqsUpTo(S, n - 1)
         IN  shorter \cup {Append(s, c) : s \in {t \in shorter : Len(t) = n - 1}, c \in S}

NA == <<"N", "/", "A">>

IsSpace(c) == c \in {" ", "\n"}

RECURSIVE LStrip(_)
LStrip(s) == IF s # << >> /\ IsSpace(Head(s)) THEN LStrip(Tail(s)) ELSE s

RECURSIVE RStrip(_)
RStrip(s) ==
    IF s # << >> /\ IsSpace(s[Len(s)]) THEN RStrip(SubSeq(s, 1, Len(s) - 1)) ELSE s

\* str.strip()
Strip(s) == RStrip(LStrip(s))

Digits == <<"0", "1", "2", "3", "4", "5", "6", "7", "8", "9">>

\* str(n) for n >= 0
RECURSIVE Str(_)
Str(n) == IF n < 10 THEN <<Digits[n + 1]>> ELSE Str(n \div 10) \o <<Digits[(n % 10) + 1]>>

(***************************************************************************)
(* Parse tree.  find() gives None or an element; an element has child      *)
(* nodes, each a text node (cls = "") or a span with a class attribute.    *)
(***************************************************************************)
None == [present |-> FALSE]
Elem(nodes) == [present |-> TRUE, nodes |-> nodes]
TextNode(t) == [cls |-> "", text |-> t]
Span(c, t) == [cls |-> c, text |-> t]
TextElem(t) == Elem(<<TextNode(t)>>)

\* Tag.text: the strings below the element, in document order
RECURSIVE NodesText(_)
NodesText(nodes) ==
    IF nodes = << >> THEN << >> ELSE Head(nodes).text \o NodesText(Tail(nodes))

ElemText(e) == NodesText(e.nodes)

\* len(cell.find_all("span", class_="star fill"))
RECURSIVE CountFill(_)
CountFill(nodes) ==
    IF nodes = << >> THEN 0
    ELSE (IF Head(nodes).cls = "star fill" THEN 1 ELSE 0) + CountFill(Tail(nodes))

(***************************************************************************)
(* re.search(r"(?<=\().+?(?=\))", text), as the backtracking engine runs   *)
(* it: start positions left to right; at a start the lookbehind wants "("  *)
(* just before, ".+?" takes one character that is not a newline and then   *)
(* as few more as it must until the lookahead sees ")".                    *)
(***************************************************************************)
NoMatch == [found |-> FALSE]

\* .+? has taken k >= 1 characters from p: length of the match, 0 for none
RECURSIVE LazyDot(_, _, _)
LazyDot(s, p, k) ==
    IF p + k > Len(s) THEN 0
    ELSE IF s[p + k] = ")" THEN k
    ELSE IF s[p + k] = "\n" THEN 0
    ELSE LazyDot(s, p, k + 1)

MatchAt(s, p) ==
    IF p > 1 /\ p <= Len(s) /\ s[p - 1] = "(" /\ s[p] # "\n"
    THEN LazyDot(s, p, 1)
    ELSE 0

RECURSIVE SearchFrom(_, _)
SearchFrom(s, p) ==
    IF p > Len(s) THEN NoMatch
    ELSE LET k == MatchAt(s, p)
         IN  IF k > 0 THEN [found |-> TRUE, group |-> SubSeq(s, p, p + k - 1)]
             ELSE SearchFrom(s, p + 1)

\* the same search with a greedy ".+"
RECURSIVE GreedyDot(_, _, _)
GreedyDot(s, p, k) ==
    IF k = 0 THEN 0
    ELSE IF p + k <= Len(s) /\ s[p + k] = ")"
            /\ \A i \in p..(p + k - 1) : s[i] # "\n" THEN k
    ELSE GreedyDot(s, p, k - 1)

RECURSIVE GreedySearchFrom(_, _)
GreedySearchFrom(s, p) ==
    IF p > Len(s) THEN NoMatch
    ELSE LET k == IF p > 1 /\ s[p - 1] = "(" THEN GreedyDot(s, p, Len(s) - p) ELSE 0
         IN  IF k > 0 THEN [found |-> TRUE, group |-> SubSeq(s, p, p + k - 1)]
             ELSE GreedySearchFrom(s, p + 1)

CountrySearchGreedy(text) == GreedySearchFrom(text, 1)

CountrySearch(text) == SearchFrom(text, 1)

(***************************************************************************)
(* dict                                                                    *)
(***************************************************************************)
EmptyDict == [k \in {} |-> << >>]
Put(d, k, v) == [x \in DOMAIN d \cup {k} |-> IF x = k THEN v ELSE d[x]]

KDate == <<"D", "a", "t", "e">>
KRating == <<"R", "a", "t", "i", "n", "g">>
KTitle == <<"T", "i", "t", "l", "e">>
KAuthor == <<"A", "u", "t", "h", "o", "r">>
KCountry == <<"C", "o", "u", "n", "t", "r", "y">>
KReview == <<"R", "e", "v", "i", "e", "w">>
CoreFields == {KDate, KRating, KTitle, KAuthor, KCountry, KReview}

(***************************************************************************)
(* scrape_reviews: one review block.  A block holds what find() gives for  *)
(* each designated element; table.rows[i] is what findChildren() gives for *)
(* the i-th tr, of which the code reads the first two entries.             *)
(***************************************************************************)
StarPlaceholder == <<"1", "2", "3", "4", "5">>

\* Tag.get(key, default)
Get(attrs, key, default) == IF key \in DOMAIN attrs THEN attrs[key] ELSE default

\* elem.text.strip() if elem else "N/A"
TextOrNA(elem) == IF elem.present THEN Strip(ElemText(elem)) ELSE NA

\* lines 89-93, with the star count forgotten
StatValueNoCount(cell) == Strip(ElemText(cell))

\* lines 89-93: value_text of a stat row
StatValue(cell) ==
    LET value_text == Strip(ElemText(cell))
    IN  IF value_text = StarPlaceholder THEN Str(CountFill(cell.nodes)) ELSE value_text

\* lines 86-95: the loop over review_stats; cells[0] or cells[1] of a short
\* row raises IndexError
RECURSIVE StatsLoop(_, _)
StatsLoop(review, review_stats) ==
    IF review_stats = << >> THEN [raised |-> "", review |-> review]
    ELSE LET cells == Head(review_stats)
         IN  IF Len(cells) < 2 THEN [raised |-> "IndexError", review |-> review]
             ELSE StatsLoop(Put(review, Strip(ElemText(cells[1])), StatValue(cells[2])),
                            Tail(review_stats))

\* lines 70-77
CountryOf(user_info) ==
    IF user_info.present
    THEN LET country_match == CountrySearch(Strip(ElemText(user_info)))
         IN  IF country_match.found THEN country_match.group ELSE NA
    ELSE NA

\* lines 56-60
RatingOf(block) ==
    LET rating == IF block.ratingValue.present THEN block.ratingValue ELSE block.rating10
    IN  TextOrNA(rating)

\* lines 56-81, after Date has been set
CoreFieldsOf(block) ==
    LET r1 == Put(EmptyDict, KDate, Get(block.time.attrs, "datetime", NA))
        r2 == Put(r1, KRating, RatingOf(block))
        r3 == Put(r2, KTitle, TextOrNA(block.title))
        r4 == Put(r3, KAuthor, TextOrNA(block.name))
        r5 == Put(r4, KCountry, CountryOf(block.status))
    IN  Put(r5, KReview, TextOrNA(block.body))

\* lines 50-100 for one review_block: find("time") giving None raises
\* AttributeError outside the try; a missing table raises it inside
ExtractReview(block) ==
    IF ~block.time.present
    THEN [raised |-> "AttributeError", review |-> EmptyDict, log |-> << >>]
    ELSE LET core == CoreFieldsOf(block)
         IN  IF ~block.table.present
             THEN [raised |-> "", review |-> core, log |-> <<"Error parsing review stats">>]
             ELSE LET st == StatsLoop(core, block.table.rows)
                  IN  [raised |-> st.raised, review |-> st.review,
                       log |-> IF st.raised = "" THEN <<"review">> ELSE << >>]

\* lines 49-102: the loop over the review blocks.  review is the local
\* variable as the function is left
RECURSIVE BlockLoop(_, _, _, _)
BlockLoop(blocks, reviews, review, log) ==
    IF blocks = << >>
    THEN [raised |-> "", reviews |-> reviews, review |-> review, log |-> log]
    ELSE LET r == ExtractReview(Head(blocks))
         IN  IF r.raised # ""
             THEN [raised |-> r.raised, reviews |-> reviews, review |-> r.review,
                   log |-> log \o r.log]
             ELSE BlockLoop(Tail(blocks), Append(reviews, r.review), r.review, log \o r.log)

\* lines 29-102
scrape_reviews(resp) ==
    IF ~resp.ok
    THEN [raised |-> "", reviews |-> << >>, review |-> EmptyDict, log |-> <<"Request failed">>]
    ELSE BlockLoop(resp.blocks, << >>, EmptyDict, << >>)

(***************************************************************************)
(* Pages the site may serve.                                               *)
(***************************************************************************)
TimeElem(attrs) == [present |-> TRUE, attrs |-> attrs]
Table(rows) == [present |-> TRUE, rows |-> rows]
Row(label, value) == <<TextElem(label), value>>

\* a star widget with the first k of its five stars filled and e further
\* filled markers without text
StarCell(k, e) ==
    Elem([i \in 1..5 |-> Span(IF i <= k THEN "star fill" ELSE "star", <<Digits[i + 1]>>)]
         \o [i \in 1..e |-> Span("star fill", << >>)])

ExtraStars == {0, 1}
ValueCells ==
    {StarCell(k, e) : k \in 0..5, e \in ExtraStars}
    \cup {TextElem(t) : t \in {<<" ", "y", "\n">>, StarPlaceholder, << >>}}
Labels == {<<"S">>, <<" ", "R">>}
Rows ==
    {Row(l, v) : l \in Labels, v \in ValueCells}
    \cup {<< >>, <<TextElem(<<"S">>)>>}

GoodTable == Table(<<Row(<<"S">>, StarCell(3, 0))>>)

BaseBlock ==
    [time |-> TimeElem([k \in {"datetime"} |-> <<"d">>]),
     ratingValue |-> TextElem(<<" ", "9">>),
     rating10 |-> TextElem(<<"8">>),
     title |-> TextElem(<<"t", " ">>),
     name |-> TextElem(<<"J">>),
     status |-> TextElem(<<"J", " ", "(", "U", "K", ")">>),
     body |-> TextElem(<<"\n", "b">>),
     table |-> GoodTable]

Opt(e) == {None, e}

PresenceBlocks ==
    [time : {None, TimeElem(EmptyDict), BaseBlock.time},
     ratingValue : Opt(BaseBlock.ratingValue),
     rating10 : Opt(BaseBlock.rating10),
     title : Opt(BaseBlock.title),
     name : Opt(BaseBlock.name),
     status : Opt(BaseBlock.status),
     body : Opt(BaseBlock.body),
     table : Opt(GoodTable)]

StatusAlphabet == {"(", ")", "a", "\n"}
StatusBlocks ==
    {[BaseBlock EXCEPT !.status = TextElem(t)] : t \in SeqsUpTo(StatusAlphabet, MaxLen)}

TableBlocks ==
    {[BaseBlock EXCEPT !.table = Table(rows)] : rows \in SeqsUpTo(Rows, MaxTableRows)}

Blocks == PresenceBlocks \cup StatusBlocks \cup TableBlocks

SampleBlocks ==
    {BaseBlock,
     [BaseBlock EXCEPT !.name = TextElem(<<"K">>), !.table = None],
     [BaseBlock EXCEPT !.time = None],
     [BaseBlock EXCEPT !.table = Table(<<Row(<<"S">>, StarCell(5, 0)), <<TextElem(<<"S">>)>>>>)]}

Failed == [ok |-> FALSE, blocks |-> << >>]
Page(blocks) == [ok |-> TRUE, blocks |-> blocks]

Responses ==
    {Failed, Page(<< >>)}
    \cup {Page(<<b>>) : b \in Blocks}
    \cup {Page(<<a, b>>) : a \in SampleBlocks, b \in SampleBlocks}

(***************************************************************************)
(* Specification of scrape_reviews on one response.                        *)
(***************************************************************************)
NoResult == [raised |-> "", reviews |-> << >>, review |-> EmptyDict, log |-> << >>]

NotRaised == [kind |-> "", in |-> ""]

CrawlIdle ==
    /\ pc = "idle" /\ raised = NotRaised /\ sec = 0 /\ num_pages = 0 /\ page_num = 0
    /\ all_reviews = << >> /\ requested = << >> /\ fetched = << >>
    /\ harvests = << >> /\ data = << >> /\ out = << >>

PseudoIdle ==
    /\ listing = << >> /\ files = << >> /\ p_idx = 0
    /\ p_calls = << >> /\ p_seen = {} /\ p_done = {}

ScrapeIdle == response = Failed /\ scraped = NoResult /\ s_pc = "idle"

InitScrape ==
    /\ response \in Responses
    /\ scraped = NoResult
    /\ s_pc = "ready"
    /\ CrawlIdle
    /\ PseudoIdle

ScrapeReviews ==
    /\ s_pc = "ready"
    /\ scraped' = scrape_reviews(response)
    /\ s_pc' = "done"
    /\ UNCHANGED <<response, crawlVars, pseudoVars>>

NextScrape == ScrapeReviews

SpecScrape == InitScrape /\ [][NextScrape]_vars

(***************************************************************************)
(* Properties of scrape_reviews (SpecScrape).                              *)
(***************************************************************************)
ScrapeDone == s_pc = "done" /\ response.ok

WellFormedTable(b) ==
    b.table.present => \A i \in 1..Len(b.table.rows) : Len(b.table.rows[i]) >= 2

\* the value a core field is claimed to get from its element
ClaimedText(e) == IF e.present THEN Strip(ElemText(e)) ELSE NA

CoreFieldsSet(rec, b) ==
    /\ CoreFields \subseteq DOMAIN rec
    /\ rec[KDate] = (IF b.time.present /\ "datetime" \in DOMAIN b.time.attrs
                     THEN b.time.attrs["datetime"] ELSE NA)
    /\ rec[KRating] = (IF b.ratingValue.present THEN ClaimedText(b.ratingValue)
                       ELSE ClaimedText(b.rating10))
    /\ rec[KTitle] = ClaimedText(b.title)
    /\ rec[KAuthor] = ClaimedText(b.name)
    /\ (~b.status.present => rec[KCountry] = NA)
    /\ rec[KReview] = ClaimedText(b.body)

\* C3: whatever subset of the designated elements a review block holds,
\* scrape_reviews raises nothing and appends a record with all six core
\* fields set, to the extracted value or to "N/A".  (Blocks whose stats
\* table is absent or has only full rows, so that the table plays no part.)
C3_EverySubsetYieldsRecord ==
    (ScrapeDone /\ \A i \in 1..Len(response.blocks) : WellFormedTable(response.blocks[i]))
    => /\ scraped.raised = ""
       /\ Len(scraped.reviews) = Len(response.blocks)
       /\ \A i \in 1..Len(scraped.reviews) :
              CoreFieldsSet(scraped.reviews[i], response.blocks[i])

\* C5: any failure while parsing the stats table (table absent, or a row
\* with fewer than two cells) is caught and logged: the block's record is
\* still appended with its six core fields and the remaining blocks are
\* processed.  (Blocks that all hold a time element.)
C5_TableFailureIsCaught ==
    (ScrapeDone /\ \A i \in 1..Len(response.blocks) : response.blocks[i].time.present)
    => /\ scraped.raised = ""
       /\ Len(scraped.reviews) = Len(response.blocks)
       /\ \A i \in 1..Len(scraped.reviews) :
              /\ CoreFieldsSet(scraped.reviews[i], response.blocks[i])
              /\ ~WellFormedTable(response.blocks[i]) \/ ~response.blocks[i].table.present
                 => \E j \in 1..Len(scraped.log) :
                        scraped.log[j] = "Error parsing review stats"

\* the rows of a table the loop gets through: those before the first short one
RECURSIVE FullRowsPrefix(_)
FullRowsPrefix(rows) ==
    IF rows = << >> \/ Len(Head(rows)) < 2 THEN << >>
    ELSE <<Head(rows)>> \o FullRowsPrefix(Tail(rows))

FilledStars(cell) == Cardinality({i \in DOMAIN cell.nodes : cell.nodes[i].cls = "star fill"})
RowLabel(row) == Strip(ElemText(row[1]))
IsStarRow(row) == Strip(ElemText(row[2])) = StarPlaceholder
ClaimedValue(row) ==
    IF IsStarRow(row) THEN Str(FilledStars(row[2])) ELSE Strip(ElemText(row[2]))

\* the records built by the call, each with the stat rows that were stored in it
BuiltRecords ==
    {<<scraped.reviews[i], response.blocks[i].table.rows>> :
        i \in {k \in 1..Len(scraped.reviews) : response.blocks[k].table.present}}
    \cup (IF scraped.raised = "IndexError"
          THEN {<<scraped.review,
                  FullRowsPrefix(response.blocks[Len(scraped.reviews) + 1].table.rows)>>}
          ELSE {})

\* C8 as stated: every stat row whose value cell's trimmed text is "12345"
\* is stored under its label as the count of filled stars, a count within
\* 0..5; every other row is stored as the cell's trimmed text.
C8_StarCountWithinFive ==
    ScrapeDone =>
        \A br \in BuiltRecords : \A j \in 1..Len(br[2]) :
            /\ RowLabel(br[2][j]) \in DOMAIN br[1]
            /\ br[1][RowLabel(br[2][j])] = ClaimedValue(br[2][j])
            /\ IsStarRow(br[2][j]) => FilledStars(br[2][j][2]) \in 0..5

\* C8 amended: for every label, the record holds the value of the last stat
\* row with that (trimmed) label: the decimal text of the count of filled
\* stars of its value cell when the cell's trimmed text is "12345" (a count
\* that is not capped at 5), and the cell's trimmed text otherwise.
C8_LastRowValueStored ==
    ScrapeDone =>
        \A br \in BuiltRecords : \A j \in 1..Len(br[2]) :
            /\ RowLabel(br[2][j]) \in DOMAIN br[1]
            /\ (\A k \in (j + 1)..Len(br[2]) : RowLabel(br[2][k]) # RowLabel(br[2][j]))
               => br[1][RowLabel(br[2][j])] = ClaimedValue(br[2][j])

\* C8 witness: a star widget with six filled markers was stored as "6"
C8_SixStarsStored ==
    /\ ScrapeDone /\ scraped.raised = "" /\ Len(scraped.reviews) = 1
    /\ <<"S">> \in DOMAIN scraped.reviews[1]
    /\ scraped.reviews[1][<<"S">>] = <<"6">>
    /\ \E j \in 1..Len(response.blocks[1].table.rows) :
           LET row == response.blocks[1].table.rows[j]
           IN  Len(row) >= 2 /\ IsStarRow(row) /\ FilledStars(row[2]) = 6

Min(S) == CHOOSE x \in S : \A y \in S : x <= y
Max(S) == CHOOSE x \in S : \A y \in S : x >= y
Between(t, i, j) == SubSeq(t, i + 1, j - 1)

\* "(" positions that have a ")" at least two places on with no newline between
Opens(t) ==
    {i \in 1..Len(t) : t[i] = "("
        /\ \E j \in (i + 2)..Len(t) : t[j] = ")" /\ \A k \in (i + 1)..(j - 1) : t[k] # "\n"}

FirstParenthesised(t) ==
    IF Opens(t) = {} THEN NA
    ELSE LET i == Min(Opens(t))
         IN  Between(t, i, Min({j \in (i + 2)..Len(t) : t[j] = ")"}))

\* the claimed pattern, read as: the last "(" of the line and the next ")"
LastParenthesised(t) ==
    LET opens == {i \in 1..Len(t) : t[i] = "("}
    IN  IF opens = {} \/ {j \in (Max(opens) + 1)..Len(t) : t[j] = ")"} = {} THEN NA
        ELSE Between(t, Max(opens), Min({j \in (Max(opens) + 1)..Len(t) : t[j] = ")"}))

\* the claimed pattern, read as: the first ")" that closes something and the
\* last "(" still open before it
InnermostParenthesised(t) ==
    LET closes == {j \in 1..Len(t) : t[j] = ")" /\ \E i \in 1..(j - 1) : t[i] = "("}
    IN  IF closes = {} THEN NA
        ELSE Between(t, Max({i \in 1..(Min(closes) - 1) : t[i] = "("}), Min(closes))

StatusText(b) == Strip(ElemText(b.status))

\* C9 as stated: Country is the substring between the last unmatched "("
\* of the status line and the next ")" after it (under either reading of
\* "last unmatched"), and "N/A" when the line or the pattern is absent,
\* also with several or nested parentheses or an empty "()".
C9_LastUnmatchedParen ==
    ScrapeDone =>
        \A i \in 1..Len(scraped.reviews) :
            LET b == response.blocks[i]
            IN  scraped.reviews[i][KCountry] \in
                    (IF b.status.present
                     THEN {LastParenthesised(StatusText(b)), InnermostParenthesised(StatusText(b))}
                     ELSE {NA})

\* C9 amended: Country is the text after the first "(" of the trimmed status
\* line that has a ")" at least two characters on with no line break
\* between, up to the first such ")"; "N/A" when the status line is absent
\* or holds no such "(".  "John D (United Kingdom)" style lines give the
\* parenthesised text.
C9_FirstParenthesised ==
    ScrapeDone =>
        \A i \in 1..Len(scraped.reviews) :
            LET b == response.blocks[i]
            IN  scraped.reviews[i][KCountry] =
                    (IF b.status.present THEN FirstParenthesised(StatusText(b)) ELSE NA)

\* C9 witness: nested parentheses "((a)" gave the Country "(a"
C9_NestedParenStored ==
    /\ ScrapeDone /\ Len(scraped.reviews) = 1
    /\ response.blocks[1].status.present
    /\ StatusText(response.blocks[1]) = <<"(", "(", "a", ")">>
    /\ scraped.reviews[1][KCountry] = <<"(", "a">>

(***************************************************************************)
(* Crawler main and get_all_reviews.                                       *)
(***************************************************************************)
sections == <<"airline", "seat", "lounge">>

\* pd.DataFrame(reviews).to_csv(path, index=False): the columns are the
\* union of the records' keys, a key a record lacks is an empty cell
ToCsv(reviews) ==
    LET cols == UNION {DOMAIN reviews[i] : i \in 1..Len(reviews)}
    IN  [cols |-> cols,
         rows |-> [i \in 1..Len(reviews) |->
                      [c \in cols |-> IF c \in DOMAIN reviews[i] THEN reviews[i][c] ELSE << >>]]]

IsDigit(c) == \E d \in 1..10 : Digits[d] = c
DigitValue(c) == (CHOOSE d \in 1..10 : Digits[d] = c) - 1

\* whether int(text) parses (a run of decimal digits)
IsNumber(t) == t # << >> /\ \A i \in 1..Len(t) : IsDigit(t[i])

\* int(text)
RECURSIVE IntOf(_)
IntOf(t) ==
    IF t = << >> THEN 0 ELSE 10 * IntOf(SubSeq(t, 1, Len(t) - 1)) + DigitValue(t[Len(t)])

\* the pagination control: the texts of its li items
Nav(items) == [present |-> TRUE, items |-> items]
NextControl == <<">", ">">>
PageItems(n) == [i \in 1..n |-> Str(i)] \o <<NextControl>>
NavControls ==
    {None, Nav(<< >>), Nav(<<NextControl>>), Nav(<<<<"<", "<">>, NextControl>>)}
    \cup {Nav(PageItems(n)) : n \in 1..MaxPages}

MainPages == {[ok |-> FALSE, nav |-> None]} \cup {[ok |-> TRUE, nav |-> n] : n \in NavControls}

ListingPages ==
    {Failed,
     Page(<<BaseBlock, [BaseBlock EXCEPT !.name = TextElem(<<"K">>), !.table = None]>>),
     Page(<<[BaseBlock EXCEPT !.name = TextElem(<<"L">>)]>>),
     Page(<<BaseBlock, [BaseBlock EXCEPT !.time = None]>>),
     Page(<<[BaseBlock EXCEPT !.table = Table(<<<<TextElem(<<"S">>)>>>>)]>>)}

NextSection ==
    /\ sec' = sec + 1
    /\ pc' = IF sec + 1 > Len(sections) THEN "done" ELSE "section"

Raise(kind, where) ==
    /\ pc' = "raised"
    /\ raised' = [kind |-> kind, in |-> where]

\* lines 130-143: one pass of the loop over sections up to the page count
Discover ==
    /\ pc = "section"
    /\ \E resp \in MainPages :
        /\ requested' = Append(requested, <<sections[sec], 1>>)
        /\ IF ~resp.ok
           THEN /\ out' = Append(out, <<sections[sec], "Failed to retrieve main page">>)
                /\ NextSection
                /\ UNCHANGED <<raised, num_pages, page_num, all_reviews, fetched>>
           ELSE IF ~resp.nav.present
           THEN /\ Raise("AttributeError", "main")
                /\ UNCHANGED <<sec, out, num_pages, page_num, all_reviews, fetched>>
           ELSE IF Len(resp.nav.items) < 2
           THEN /\ Raise("IndexError", "main")
                /\ UNCHANGED <<sec, out, num_pages, page_num, all_reviews, fetched>>
           ELSE IF ~IsNumber(resp.nav.items[Len(resp.nav.items) - 1])
           THEN /\ Raise("ValueError", "main")
                /\ UNCHANGED <<sec, out, num_pages, page_num, all_reviews, fetched>>
           ELSE /\ num_pages' = IntOf(resp.nav.items[Len(resp.nav.items) - 1])
                /\ page_num' = 1
                /\ all_reviews' = << >>
                /\ fetched' = << >>
                /\ pc' = "pages"
                /\ UNCHANGED <<raised, sec, out>>
    /\ UNCHANGED <<harvests, data, scrapeVars, pseudoVars>>

\* lines 117-120: one pass of the loop of get_all_reviews
HarvestPage ==
    /\ pc = "pages"
    /\ page_num <= num_pages
    /\ \E resp \in ListingPages :
        LET r == scrape_reviews(resp)
        IN  /\ requested' = Append(requested, <<sections[sec], page_num>>)
            /\ fetched' = Append(fetched, resp)
            /\ IF r.raised # ""
               THEN /\ Raise(r.raised, "scrape_reviews")
                    /\ UNCHANGED <<all_reviews, page_num, out>>
               ELSE /\ all_reviews' = all_reviews \o r.reviews
                    /\ page_num' = page_num + 1
                    /\ out' = IF resp.ok THEN out
                              ELSE Append(out, <<sections[sec], "Request failed">>)
                    /\ UNCHANGED <<pc, raised>>
    /\ UNCHANGED <<sec, num_pages, harvests, data, scrapeVars, pseudoVars>>

\* lines 122 and 146-151: get_all_reviews returns and the section is saved
SaveSection ==
    /\ pc = "pages"
    /\ page_num > num_pages
    /\ harvests' = Put(harvests, sections[sec],
                       [num_pages |-> num_pages, fetched |-> fetched, reviews |-> all_reviews])
    /\ data' = Put(data, sections[sec], ToCsv(all_reviews))
    /\ out' = Append(out, <<sections[sec], "completed and saved">>)
    /\ NextSection
    /\ UNCHANGED <<raised, num_pages, page_num, all_reviews, requested, fetched,
                   scrapeVars, pseudoVars>>

InitCrawl ==
    /\ pc = "section" /\ raised = NotRaised /\ sec = 1 /\ num_pages = 0 /\ page_num = 0
    /\ all_reviews = << >> /\ requested = << >> /\ fetched = << >>
    /\ harvests = EmptyDict /\ data = EmptyDict /\ out = << >>
    /\ ScrapeIdle
    /\ PseudoIdle

NextCrawl == Discover \/ HarvestPage \/ SaveSection

SpecCrawl == InitCrawl /\ [][NextCrawl]_vars

(***************************************************************************)
(* Properties of the crawler (SpecCrawl).                                  *)
(***************************************************************************)
\* the page numbers requested for section s, in order
RequestsOf(s) ==
    LET OfSection(r) == r[1] = s
        rs == SelectSeq(requested, OfSection)
    IN  [i \in 1..Len(rs) |-> rs[i][2]]

DiscoveryFailedFor(s) ==
    \E i \in 1..Len(out) : out[i] = <<s, "Failed to retrieve main page">>

\* C2: a category whose page-count discovery fails (page-1 fetch failed, or
\* pagination control missing or malformed) has no page harvested, gets a
\* diagnostic instead of an exception, and the remaining categories are
\* still processed.
C2_DiscoveryFailureSkipsCategory ==
    /\ raised.in # "main"
    /\ \A i \in 1..Len(sections) :
           DiscoveryFailedFor(sections[i])
           => RequestsOf(sections[i]) = <<1>> /\ sections[i] \notin DOMAIN data
    /\ pc = "done"
       => \A i \in 1..Len(sections) :
              sections[i] \in DOMAIN data \/ DiscoveryFailedFor(sections[i])

\* the claimed result of get_all_reviews: the per-page record lists in page
\* order, a failed page giving the empty list
RECURSIVE ConcatPages(_)
ConcatPages(resps) ==
    IF resps = << >> THEN << >>
    ELSE (IF Head(resps).ok THEN scrape_reviews(Head(resps)).reviews ELSE << >>)
         \o ConcatPages(Tail(resps))

HarvestInOrder(s) ==
    LET h == harvests[s]
    IN  /\ RequestsOf(s) = <<1>> \o [i \in 1..h.num_pages |-> i]
        /\ Len(h.fetched) = h.num_pages
        /\ h.reviews = ConcatPages(h.fetched)

\* C4: for a category with page count N, get_all_reviews requests pages
\* 1..N in order, each once, whichever of them fail to fetch, and returns
\* the per-page record lists concatenated in page order, a failed page
\* contributing nothing.
C4_AllPagesRequestedInOrder ==
    /\ raised.in # "scrape_reviews"
    /\ pc = "pages" => RequestsOf(sections[sec]) = <<1>> \o [i \in 1..(page_num - 1) |-> i]
    /\ \A s \in DOMAIN harvests : HarvestInOrder(s)

\* the same without the demand that get_all_reviews returns
C4_ReturnedHarvestsInOrder ==
    /\ pc = "pages" => RequestsOf(sections[sec]) = <<1>> \o [i \in 1..(page_num - 1) |-> i]
    /\ \A s \in DOMAIN harvests : HarvestInOrder(s)

(***************************************************************************)
(* pseudonymize.py.  A file of data/ is its column names and its rows of   *)
(* stored cell texts; a file that is no CSV table is not readable.  A      *)
(* DataFrame has the same shape with NaN for the cells pandas reads as     *)
(* missing.                                                                *)
(***************************************************************************)
KAuthorId == <<"a", "u", "t", "h", "o", "r", "_", "i", "d">>
NaN == <<"<NaN>">>

\* among the texts read_csv takes for missing values by default
NaValues ==
    {<< >>, NA, <<"N", "A">>, <<"n", "/", "a">>, <<"n", "a", "n">>, <<"N", "a", "N">>,
     <<"n", "u", "l", "l">>, <<"N", "U", "L", "L">>}

\* str(n) for any integer
StrInt(n) == IF n < 0 THEN <<"-">> \o Str(-n) ELSE Str(n)

\* whether pd.read_csv(filepath) returns: not for a file that is no table
\* or has no columns (EmptyDataError)
CanRead(file) == file.readable /\ file.cols # {}

\* pd.read_csv(filepath)
read_csv(file) ==
    [cols |-> file.cols,
     rows |-> [i \in 1..Len(file.rows) |->
                  [c \in file.cols |->
                      IF file.rows[i][c] \in NaValues THEN NaN ELSE file.rows[i][c]]]]

\* line 17 with the Country test forgotten
MissingAuthorOnly(df) == KAuthor \notin df.cols

\* line 17
MissingColumns(df) == KAuthor \notin df.cols \/ KCountry \notin df.cols

\* df["Author"] + "|" where the column holds no text at all: a float64
\* column plus a str raises TypeError
ConcatRaises(df) ==
    Len(df.rows) > 0 /\ \A i \in 1..Len(df.rows) : df.rows[i][KAuthor] = NaN

\* df["Author"] + "|" + df["Country"], row i: NaN where either is NaN
KeyOf(df, i) ==
    IF df.rows[i][KAuthor] = NaN \/ df.rows[i][KCountry] = NaN THEN NaN
    ELSE df.rows[i][KAuthor] \o <<"|">> \o df.rows[i][KCountry]

\* pd.factorize: the distinct non-NaN values in order of first appearance
RECURSIVE Uniques(_)
Uniques(keys) ==
    IF keys = << >> THEN << >>
    ELSE LET u == Uniques(SubSeq(keys, 1, Len(keys) - 1))
             k == keys[Len(keys)]
         IN  IF k = NaN \/ \E j \in 1..Len(u) : u[j] = k THEN u ELSE Append(u, k)

\* pd.factorize(keys)[0]: the codes, -1 for NaN
factorize(keys) ==
    LET u == Uniques(keys)
    IN  [i \in 1..Len(keys) |->
            IF keys[i] = NaN THEN -1 ELSE (CHOOSE j \in 1..Len(u) : u[j] = keys[i]) - 1]

\* line 22 without the drop: df.to_csv(filepath, index=False)
WriteKeepingAuthor(df, ids) ==
    [readable |-> TRUE,
     cols |-> df.cols \cup {KAuthorId},
     rows |-> [i \in 1..Len(df.rows) |->
                  [c \in df.cols \cup {KAuthorId} |->
                      IF c = KAuthorId THEN StrInt(ids[i])
                      ELSE IF df.rows[i][c] = NaN THEN << >> ELSE df.rows[i][c]]]]

\* line 22: df.drop(columns=["Author"]).to_csv(filepath, index=False), df with
\* the author_id column ids; NaN is written as an empty cell
WriteWithoutAuthor(df, ids) ==
    [readable |-> TRUE,
     cols |-> (df.cols \ {KAuthor}) \cup {KAuthorId},
     rows |-> [i \in 1..Len(df.rows) |->
                  [c \in (df.cols \ {KAuthor}) \cup {KAuthorId} |->
                      IF c = KAuthorId THEN StrInt(ids[i])
                      ELSE IF df.rows[i][c] = NaN THEN << >> ELSE df.rows[i][c]]]]

\* lines 14-25: the file afterwards, the level logged, whether it was written.
\* Every exception (unreadable file, KeyError of df[...], TypeError of the
\* concatenation) is caught and logged as an error
process_dataset(file) ==
    IF ~CanRead(file) THEN [file |-> file, log |-> "error", wrote |-> FALSE]
    ELSE LET df == read_csv(file)
         IN  IF MissingColumns(df) THEN [file |-> file, log |-> "warning", wrote |-> FALSE]
             ELSE IF KAuthor \notin df.cols \/ KCountry \notin df.cols \/ ConcatRaises(df)
             THEN [file |-> file, log |-> "error", wrote |-> FALSE]
             ELSE LET ids == factorize([i \in 1..Len(df.rows) |-> KeyOf(df, i)])
                  IN  [file |-> WriteWithoutAuthor(df, ids), log |-> "info", wrote |-> TRUE]

\* filename.endswith("_reviews.csv"), a file name being its parts in order
EndsWithReviewsCsv(filename) ==
    filename # << >> /\ filename[Len(filename)] = "_reviews.csv"

(***************************************************************************)
(* The data directory before the first run.                                *)
(***************************************************************************)
AirlineCsv == <<"airline", "_reviews.csv">>
SeatCsv == <<"seat", "_reviews.csv">>
SeatBackup == <<"seat", "_reviews.csv", ".bak">>

AuthorCells == {<<"J">>, <<"J", "|">>, NA, << >>}
CountryCells == {<<"U">>, <<"|", "U">>, NA, << >>}
ReviewCell == <<"r">>

DatasetRows ==
    {[c \in {KAuthor, KCountry, KReview} |->
         IF c = KAuthor THEN a ELSE IF c = KCountry THEN k ELSE ReviewCell] :
        a \in AuthorCells, k \in CountryCells}

Datasets ==
    {[readable |-> TRUE, cols |-> {KAuthor, KCountry, KReview}, rows |-> rows] :
        rows \in SeqsUpTo(DatasetRows, MaxRows)}

OneRow(cols) ==
    [readable |-> TRUE, cols |-> cols,
     rows |-> <<[c \in cols |-> IF c = KReview THEN ReviewCell ELSE <<"J">>]>>]

OtherFiles ==
    {OneRow({KAuthor, KReview}), OneRow({KCountry, KReview}), OneRow({KReview}),
     [readable |-> TRUE, cols |-> {}, rows |-> << >>],
     [readable |-> FALSE, cols |-> {}, rows |-> << >>]}

InitPseudo ==
    /\ listing \in {<<SeatCsv, SeatBackup, AirlineCsv>>, <<AirlineCsv, SeatBackup, SeatCsv>>}
    /\ \E a \in Datasets, b \in OtherFiles :
           files = [n \in {AirlineCsv, SeatCsv, SeatBackup} |->
                       IF n = AirlineCsv THEN a
                       ELSE IF n = SeatCsv THEN b
                       ELSE OneRow({KAuthor, KCountry, KReview})]
    /\ p_idx = 1 /\ p_calls = EmptyDict /\ p_seen = {} /\ p_done = {}
    /\ ScrapeIdle
    /\ CrawlIdle

\* lines 29-31: one pass of the loop of main over a name that matches
ProcessDataset ==
    /\ p_idx >= 1 /\ p_idx <= Len(listing)
    /\ EndsWithReviewsCsv(listing[p_idx])
    /\ LET filename == listing[p_idx]
           r == process_dataset(files[filename])
       IN  /\ files' = [files EXCEPT ![filename] = r.file]
           /\ p_calls' = Put(p_calls, filename,
                              [before |-> files[filename], log |-> r.log, wrote |-> r.wrote,
                               done_before |-> filename \in p_done])
           /\ p_seen' = p_seen \cup {filename}
           /\ p_done' = IF r.log = "info" THEN p_done \cup {filename} ELSE p_done
    /\ p_idx' = p_idx + 1
    /\ UNCHANGED <<listing, scrapeVars, crawlVars>>

\* lines 29-30: one pass of the loop of main over a name that does not match
SkipOtherFile ==
    /\ p_idx >= 1 /\ p_idx <= Len(listing)
    /\ ~EndsWithReviewsCsv(listing[p_idx])
    /\ p_idx' = p_idx + 1
    /\ UNCHANGED <<listing, files, p_calls, p_seen, p_done, scrapeVars, crawlVars>>

\* the script is run again over the same directory
RunAgain ==
    /\ p_idx > Len(listing) /\ listing # << >>
    /\ p_idx' = 1
    /\ p_seen' = {}
    /\ UNCHANGED <<listing, files, p_calls, p_done, scrapeVars, crawlVars>>

NextPseudo == ProcessDataset \/ SkipOtherFile \/ RunAgain

SpecPseudo == InitPseudo /\ [][NextPseudo]_vars

(***************************************************************************)
(* Properties of the pseudonymizer (SpecPseudo).                           *)
(***************************************************************************)
\* the files whose last process_dataset call added the author_id column
Pseudonymized == {n \in DOMAIN p_calls : p_calls[n].log = "info"}

AuthorIdOf(n, i) == files[n].rows[i][KAuthorId]
AuthorOf(n, i) == p_calls[n].before.rows[i][KAuthor]
CountryOfRow(n, i) == p_calls[n].before.rows[i][KCountry]
SameIdentity(n, i, j) ==
    AuthorOf(n, i) = AuthorOf(n, j) /\ CountryOfRow(n, i) = CountryOfRow(n, j)

\* int(text) with a sign
ParseId(t) == IF t # << >> /\ Head(t) = "-" THEN 0 - IntOf(Tail(t)) ELSE IntOf(t)

\* C1: within one run of process_dataset over one dataset, two rows get the
\* same author_id if and only if their stored Author values are equal and
\* their stored Country values are equal, also with "|" in a value and with
\* the stored sentinel "N/A".
C1_SameIdIffSameAuthorAndCountry ==
    \A n \in Pseudonymized :
        \A i, j \in 1..Len(files[n].rows) :
            (AuthorIdOf(n, i) = AuthorIdOf(n, j)) <=> SameIdentity(n, i, j)

FirstRowOf(n, i) == Min({k \in 1..Len(files[n].rows) : SameIdentity(n, k, i)})

\* C7: every author_id written is a non-negative integer, and a key whose
\* first row comes earlier gets a strictly smaller identifier than a key
\* whose first row comes later, also for empty and "N/A" cells.
C7_IdsNonNegativeInFirstSeenOrder ==
    \A n \in Pseudonymized :
        \A i, j \in 1..Len(files[n].rows) :
            /\ ParseId(AuthorIdOf(n, i)) >= 0
            /\ FirstRowOf(n, i) < FirstRowOf(n, j)
               => ParseId(AuthorIdOf(n, i)) < ParseId(AuthorIdOf(n, j))

RunComplete == p_idx > Len(listing)
Matching == {listing[i] : i \in {k \in 1..Len(listing) : EndsWithReviewsCsv(listing[k])}}

LacksRequiredColumn(file) ==
    CanRead(file) /\ (KAuthor \notin file.cols \/ KCountry \notin file.cols)

C10_SecondPassChangesNothing ==
    \A n \in DOMAIN p_calls :
        p_calls[n].done_before => ~p_calls[n].wrote /\ files[n] = p_calls[n].before

\* C10 witness: a file with author_id values has been processed again
C10_ProcessedAgain ==
    \E n \in DOMAIN p_calls :
        /\ p_calls[n].done_before
        /\ KAuthorId \in p_calls[n].before.cols
        /\ Len(p_calls[n].before.rows) = MaxRows
====
